---- MODULE Spec2Model ----
(***************************************************************************)
(* nscm (src/nscm.py): a wrapper around git that generates a commit        *)
(* message when the user runs `git commit -m ""`.                          *)
(*                                                                         *)
(* A Python str is modelled as a sequence of one-character strings, a      *)
(* Python list as a sequence.                                              *)
(***************************************************************************)
EXTENDS Integers, Sequences, FiniteSets, TLC

VARIABLES
    pc,            \* position of the run: which statement comes next
    argv,          \* sys.argv[1:]
    max_lines,     \* the max_lines argument of _get_staged_diff
    git_out,       \* (code, out, err) returned by _capture_git(["diff", "--cached"])
    result,        \* the value returned by the function the run applies
    should_generate,
    passthrough,   \* main's (should_generate, passthrough)
    diff,          \* main's diff
    provider,      \* cfg["provider"]
    response,      \* what the provider call does: its kind, HTTP status and content
    message,       \* main's message
    run_git_calls, \* the _run_git calls in order: their args and git's returncode
    capture_calls, \* number of _capture_git(["diff", "--cached"]) calls
    generate_calls,\* number of _generate_message calls
    post_calls,    \* number of HTTP posts
    stderr,        \* the diagnostics main wrote, by kind
    exit_code      \* main's return value (NoCode while running)

vars == <<pc, argv, max_lines, git_out, result, should_generate, passthrough, diff,
          provider, response, message, run_git_calls, capture_calls,
          generate_calls, post_calls, stderr, exit_code>>

----------------------------------------------------------------------------
(* Bounds of the model *)

\* longest argument sequence given to _extract_commit_args
MaxArgs == 5
\* longest argument sequence given to main
MaxMainArgs == 3
\* longest exhaustively enumerated output of `git diff --cached`
MaxOutLen == 5
\* longest exhaustively enumerated provider content
MaxContentLen == 3
\* longest enumerated head and tail around the long run of a provider content
MaxPre == 2
MaxSuf == 3

----------------------------------------------------------------------------
(* Strings *)

NL == "\n"
SP == " "

\* str.isspace() on the characters of the model's alphabet
IsSpace(c) == c \in {SP, NL}

\* every sequence over S of length at most n
SeqsUpTo(S, n) == UNION {[1..k -> S] : k \in 0..n}

\* n copies of character c
Rep(c, n) == [i \in 1..n |-> c]

\* str.strip()
strip(s) ==
    LET ns == {i \in 1..Len(s) : ~IsSpace(s[i])}
    IN  IF ns = {} THEN <<>>
        ELSE LET lo == CHOOSE i \in ns : \A j \in ns : i <= j
                 hi == CHOOSE i \in ns : \A j \in ns : j <= i
             IN  SubSeq(s, lo, hi)

\* str.rstrip()
rstrip(s) ==
    LET ns == {i \in 1..Len(s) : ~IsSpace(s[i])}
    IN  IF ns = {} THEN <<>>
        ELSE SubSeq(s, 1, CHOOSE i \in ns : \A j \in ns : j <= i)

\* str.split("\n") of s[lo..hi], for lo <= hi: the pieces between line breaks,
\* by halves
RECURSIVE pieces(_, _, _)
pieces(s, lo, hi) ==
    IF lo = hi THEN (IF s[lo] = NL THEN <<(<<>>), (<<>>)>> ELSE <<(<<s[lo]>>)>>)
    ELSE LET mid == (lo + hi) \div 2
             A == pieces(s, lo, mid)
             B == pieces(s, mid + 1, hi)
         IN  SubSeq(A, 1, Len(A) - 1) \o <<A[Len(A)] \o B[1]>> \o Tail(B)

\* str.splitlines(): the pieces between line breaks; a final line break opens
\* no further (empty) line
splitlines(s) ==
    IF Len(s) = 0 THEN <<>>
    ELSE LET p == pieces(s, 1, Len(s))
         IN  IF p[Len(p)] = <<>> THEN SubSeq(p, 1, Len(p) - 1) ELSE p

\* "\n".join(lines), by halves
RECURSIVE join(_)
join(lines) ==
    IF Len(lines) = 0 THEN <<>>
    ELSE IF Len(lines) = 1 THEN lines[1]
    ELSE LET mid == Len(lines) \div 2
         IN  join(SubSeq(lines, 1, mid)) \o <<NL>>
                 \o join(SubSeq(lines, mid + 1, Len(lines)))

----------------------------------------------------------------------------
(* _extract_commit_args *)

COMMIT  == <<"c", "o", "m", "m", "i", "t">>
STATUS  == <<"s", "t", "a", "t", "u", "s">>
DASH_M  == <<"-", "m">>
MESSAGE == <<"-", "-", "m", "e", "s", "s", "a", "g", "e">>
EMPTY   == <<>>
DQUOTE  == <<"\"">>
SQUOTE  == <<"'">>
TEXT    == <<"f", "i", "x">>
DASH_A  == <<"-", "a">>

Tokens == {COMMIT, STATUS, DASH_M, MESSAGE, EMPTY, DQUOTE, SQUOTE, TEXT, DASH_A}

\* a == "-m" or a == "--message"
IsMessageFlag(a) == a = DASH_M \/ a = MESSAGE

\* val == "" or val == '"' or val == "'"
IsEmptyValue(val) == val = EMPTY \/ val = DQUOTE \/ val = SQUOTE

RECURSIVE scan_KeepValue(_, _, _, _)
scan_KeepValue(args, i, sg, cleaned) ==
    IF i > Len(args) THEN <<sg, cleaned>>
    ELSE IF IsMessageFlag(args[i])
         THEN IF i + 1 <= Len(args)
              THEN IF IsEmptyValue(args[i + 1])
                   THEN scan_KeepValue(args, i + 1, TRUE, cleaned)
                   ELSE <<FALSE, <<COMMIT>> \o args>>
              ELSE scan_KeepValue(args, i + 1, TRUE, cleaned)
         ELSE scan_KeepValue(args, i + 1, sg, Append(cleaned, args[i]))

RECURSIVE scan_NoShortCircuit(_, _, _, _)
scan_NoShortCircuit(args, i, sg, cleaned) ==
    IF i > Len(args) THEN <<sg, cleaned>>
    ELSE IF IsMessageFlag(args[i])
         THEN IF i + 1 <= Len(args)
              THEN IF IsEmptyValue(args[i + 1])
                   THEN scan_NoShortCircuit(args, i + 2, TRUE, cleaned)
                   ELSE scan_NoShortCircuit(args, i + 2, sg,
                                            cleaned \o <<args[i], args[i + 1]>>)
              ELSE scan_NoShortCircuit(args, i + 1, TRUE, cleaned)
         ELSE scan_NoShortCircuit(args, i + 1, sg, Append(cleaned, args[i]))

RECURSIVE scan_DanglingIgnored(_, _, _, _)
scan_DanglingIgnored(args, i, sg, cleaned) ==
    IF i > Len(args) THEN <<sg, cleaned>>
    ELSE IF IsMessageFlag(args[i])
         THEN IF i + 1 <= Len(args)
              THEN IF IsEmptyValue(args[i + 1])
                   THEN scan_DanglingIgnored(args, i + 2, TRUE, cleaned)
                   ELSE <<FALSE, <<COMMIT>> \o args>>
              ELSE scan_DanglingIgnored(args, i + 1, sg, Append(cleaned, args[i]))
         ELSE scan_DanglingIgnored(args, i + 1, sg, Append(cleaned, args[i]))

\* The while loop of _extract_commit_args from index i (1-based here) with the
\* loop's variables should_generate (sg) and cleaned; the returned pair.
RECURSIVE scan(_, _, _, _)
scan(args, i, sg, cleaned) ==
    IF i > Len(args) THEN <<sg, cleaned>>
    ELSE IF IsMessageFlag(args[i])
         THEN IF i + 1 <= Len(args)
              THEN IF IsEmptyValue(args[i + 1])
                   THEN scan(args, i + 2, TRUE, cleaned)
                   ELSE <<FALSE, <<COMMIT>> \o args>>
              ELSE scan(args, i + 1, TRUE, cleaned)
         ELSE scan(args, i + 1, sg, Append(cleaned, args[i]))

_extract_commit_args_AnyCommand(a) ==
    IF Len(a) = 0 THEN <<FALSE, a>>
    ELSE scan(Tail(a), 1, FALSE, <<COMMIT>>)

\* _extract_commit_args(argv): the pair (should_generate, arguments)
_extract_commit_args(a) ==
    IF Len(a) = 0 THEN <<FALSE, a>>
    ELSE IF a[1] # COMMIT THEN <<FALSE, a>>
    ELSE scan(Tail(a), 1, FALSE, <<COMMIT>>)

----------------------------------------------------------------------------
(* Results of calls: a returned value or a raised exception *)

Return(v) == [raised |-> FALSE, exc |-> "", value |-> v]
Raise(e)  == [raised |-> TRUE, exc |-> e, value |-> <<>>]

----------------------------------------------------------------------------
(* _get_staged_diff *)

\* main's max_lines=500, the default of _get_staged_diff
DefaultMaxLines == 500

\* "\n... (truncated) ..."
TRUNCATED == <<NL, ".", ".", ".", SP, "(", "t", "r", "u", "n", "c", "a", "t", "e", "d",
               ")", SP, ".", ".", ".">>

\* lines[:max_lines] + ["\n... (truncated) ..."] when there are more than
\* max_lines lines
truncate(lines, n) ==
    IF Len(lines) > n THEN SubSeq(lines, 1, n) \o <<TRUNCATED>> ELSE lines

\* _get_staged_diff(max_lines) when _capture_git returns g = (code, out, err)
_get_staged_diff(g, n) ==
    IF g.code # 0
    THEN Raise(IF strip(g.err) # <<>> THEN "RuntimeError: git's stderr"
               ELSE "RuntimeError: failed to get staged diff")
    ELSE IF strip(g.out) = <<>> THEN Return(<<>>)
    ELSE Return(join(truncate(splitlines(g.out), n)))

----------------------------------------------------------------------------
(* _openai_chat_complete and _generate_message *)

OPENAI == <<"o", "p", "e", "n", "a", "i">>
OLLAMA == <<"o", "l", "l", "a", "m", "a">>

\* the guardrail length of _generate_message
MaxMessageLen == 120

_openai_chat_complete_NoStatusCheck(r) ==
    IF ~r.api_key THEN Raise("RuntimeError: Missing OPENAI_API_KEY")
    ELSE IF r.transport # "ok" THEN Raise("RuntimeError: OpenAI request failed")
    ELSE IF ~r.body_ok THEN Raise("RuntimeError: Unexpected OpenAI response format")
    ELSE Return(strip(r.content))

\* _openai_chat_complete when the environment answers as r says:
\* r.api_key   whether OPENAI_API_KEY is set and non-empty
\* r.transport whether post_fn returns ("ok") or raises ("fail")
\* r.status    the HTTP status
\* r.body_ok   whether the body is JSON with choices[0].message.content a str
\* r.content   that content
_openai_chat_complete(r) ==
    IF ~r.api_key THEN Raise("RuntimeError: Missing OPENAI_API_KEY")
    ELSE IF r.transport # "ok" THEN Raise("RuntimeError: OpenAI request failed")
    ELSE IF r.status < 200 \/ r.status >= 300
         THEN Raise("RuntimeError: OpenAI API error: HTTP")
    ELSE IF ~r.body_ok THEN Raise("RuntimeError: Unexpected OpenAI response format")
    ELSE Return(strip(r.content))

\* whether _openai_chat_complete reaches post_fn
posts(r) == r.api_key

guardrail_None(first_line) == first_line

\* first_line[:120].rstrip() when len(first_line) > 120
guardrail(first_line) ==
    IF Len(first_line) > MaxMessageLen
    THEN rstrip(SubSeq(first_line, 1, MaxMessageLen))
    ELSE first_line

\* content.splitlines()[0].strip(); an empty list raises IndexError
first_line_of(content) ==
    IF Len(splitlines(content)) = 0 THEN Raise("IndexError: list index out of range")
    ELSE Return(strip(splitlines(content)[1]))

\* _generate_message(diff, provider, model, style) when the provider answers r
_generate_message(p, r) ==
    IF p # OPENAI THEN Raise("RuntimeError: Unsupported provider")
    ELSE LET content == _openai_chat_complete(r)
         IN  IF content.raised THEN content
             ELSE LET first == first_line_of(content.value)
                  IN  IF first.raised THEN first
                      ELSE Return(guardrail(first.value))

----------------------------------------------------------------------------
(* The inputs *)

Chars == {"a", SP, NL}

\* exit codes of git
ExitCodes == {0, 1, 128}
NoCode == 0 - 1

\* a call _run_git(args) that returned code
RunGit(args, code) == [args |-> args, returncode |-> code]

GitOutput(code, out, err) == [code |-> code, out |-> out, err |-> err]

\* n lines "a", each but the last followed by a line break; the last one too
\* when nl = 1
LongOut(n, nl) == [i \in 1..(2 * n - 1 + nl) |-> IF i % 2 = 1 THEN "a" ELSE NL]

LongOuts ==
    {LongOut(n, nl) : n \in (DefaultMaxLines - 1)..(DefaultMaxLines + 2), nl \in {0, 1}}

FailedGitOutputs == {GitOutput(c, <<>>, e) : c \in {1, 128}, e \in {<<>>, <<SP>>, <<"a">>}}

\* what `git diff --cached` may answer in the runs of _get_staged_diff
GitOutputs ==
    FailedGitOutputs
    \cup {GitOutput(0, o, <<>>) : o \in SeqsUpTo(Chars, MaxOutLen) \cup LongOuts}

\* what `git diff --cached` may answer in the runs of main
MainGitOutputs ==
    FailedGitOutputs
    \cup {GitOutput(0, o, <<>>) :
            o \in {<<>>, <<SP, NL>>, <<"a">>, <<"a", NL, SP, "a", NL>>,
                   LongOut(DefaultMaxLines + 1, 1)}}

Response(key, transport, status, body_ok, content) ==
    [api_key |-> key, transport |-> transport, status |-> status,
     body_ok |-> body_ok, content |-> content]

FailedResponses ==
    {Response(FALSE, "ok", 200, TRUE, <<"a">>), Response(TRUE, "fail", 0, FALSE, <<>>),
     Response(TRUE, "ok", 200, FALSE, <<>>)}
    \cup {Response(TRUE, "ok", s, TRUE, <<"a">>) : s \in {199, 300, 404, 500}}

OkResponses(statuses, contents) ==
    {Response(TRUE, "ok", s, TRUE, c) : s \in statuses, c \in contents}

\* head, a run of "a" around the guardrail length, tail
LongContents ==
    {pre \o Rep("a", k) \o suf :
        pre \in SeqsUpTo(Chars, MaxPre),
        k \in {0, MaxMessageLen - 2, MaxMessageLen - 1, MaxMessageLen},
        suf \in SeqsUpTo(Chars, MaxSuf)}

MainResponses ==
    FailedResponses
    \cup OkResponses({200, 299}, SeqsUpTo(Chars, MaxContentLen)
                     \cup {Rep("a", MaxMessageLen - 1) \o <<SP, "a", NL, "a">>})

MessageResponses == OkResponses({200}, LongContents)

\* what `git diff --cached` may answer in the runs of main on these responses
MessageGitOutputs == {GitOutput(0, <<"a", NL>>, <<>>), GitOutput(0, <<NL>>, <<>>)}

Providers == {OPENAI, OLLAMA}

----------------------------------------------------------------------------
(* The runs *)

Idle ==
    /\ max_lines = 0
    /\ git_out = GitOutput(0, <<>>, <<>>)
    /\ result = Return(<<>>)
    /\ should_generate = FALSE
    /\ passthrough = <<>>
    /\ diff = <<>>
    /\ provider = <<>>
    /\ response = Response(FALSE, "fail", 0, FALSE, <<>>)
    /\ message = <<>>
    /\ run_git_calls = <<>>
    /\ capture_calls = 0
    /\ generate_calls = 0
    /\ post_calls = 0
    /\ stderr = <<>>
    /\ exit_code = NoCode

\* a call of _extract_commit_args(argv)
ExtractCommitArgs ==
    /\ pc = "_extract_commit_args"
    /\ result' = _extract_commit_args(argv)
    /\ pc' = "returned"
    /\ UNCHANGED <<argv, max_lines, git_out, should_generate, passthrough, diff,
                   provider, response, message, run_git_calls, capture_calls,
                   generate_calls, post_calls, stderr, exit_code>>

InitClassify ==
    /\ pc = "_extract_commit_args"
    /\ argv \in SeqsUpTo(Tokens, MaxArgs)
    /\ Idle

SpecClassify == InitClassify /\ [][ExtractCommitArgs]_vars

\* a call of _get_staged_diff(max_lines) in which git answers git_out
GetStagedDiff ==
    /\ pc = "_get_staged_diff"
    /\ capture_calls' = capture_calls + 1
    /\ result' = _get_staged_diff(git_out, max_lines)
    /\ pc' = "returned"
    /\ UNCHANGED <<argv, max_lines, git_out, should_generate, passthrough, diff,
                   provider, response, message, run_git_calls,
                   generate_calls, post_calls, stderr, exit_code>>

InitDiff ==
    /\ pc = "_get_staged_diff"
    /\ argv = <<>>
    /\ max_lines \in {1, 2, DefaultMaxLines}
    /\ git_out \in GitOutputs
    /\ result = Return(<<>>)
    /\ should_generate = FALSE
    /\ passthrough = <<>>
    /\ diff = <<>>
    /\ provider = <<>>
    /\ response = Response(FALSE, "fail", 0, FALSE, <<>>)
    /\ message = <<>>
    /\ run_git_calls = <<>>
    /\ capture_calls = 0
    /\ generate_calls = 0
    /\ post_calls = 0
    /\ stderr = <<>>
    /\ exit_code = NoCode

SpecDiff == InitDiff /\ [][GetStagedDiff]_vars

\* main, lines 232-238: the arguments do not ask for a generated message and
\* go to git as they are
Passthrough ==
    /\ pc = "main"
    /\ ~_extract_commit_args(argv)[1]
    /\ should_generate' = _extract_commit_args(argv)[1]
    /\ passthrough' = _extract_commit_args(argv)[2]
    /\ \E code \in ExitCodes :
          /\ run_git_calls' = Append(run_git_calls, RunGit(argv, code))
          /\ exit_code' = code
    /\ pc' = "exit"
    /\ UNCHANGED <<argv, max_lines, git_out, result, diff, provider, response,
                   message, capture_calls, generate_calls, post_calls, stderr>>

\* main, lines 232-240: the arguments ask for a generated message
Triggered ==
    /\ pc = "main"
    /\ _extract_commit_args(argv)[1]
    /\ should_generate' = _extract_commit_args(argv)[1]
    /\ passthrough' = _extract_commit_args(argv)[2]
    /\ pc' = "diff"
    /\ UNCHANGED <<argv, max_lines, git_out, result, diff, provider, response,
                   message, run_git_calls, capture_calls, generate_calls,
                   post_calls, stderr, exit_code>>

no_staged_changes_Never(d) == FALSE

\* not diff.strip()
no_staged_changes(d) == strip(d) = <<>>

\* main, lines 241-249: _get_staged_diff(max_lines=500), git answering one of outs
CollectDiff(outs) ==
    /\ pc = "diff"
    /\ \E g \in outs :
          LET d == _get_staged_diff(g, DefaultMaxLines)
          IN  /\ git_out' = g
              /\ max_lines' = DefaultMaxLines
              /\ capture_calls' = capture_calls + 1
              /\ IF d.raised
                 THEN /\ stderr' = Append(stderr, "Failed to read staged diff")
                      /\ exit_code' = 1
                      /\ pc' = "exit"
                      /\ diff' = diff
                 ELSE /\ diff' = d.value
                      /\ IF no_staged_changes(d.value)
                         THEN /\ stderr' = Append(stderr, "No staged changes.")
                              /\ exit_code' = 1
                              /\ pc' = "exit"
                         ELSE /\ pc' = "config"
                              /\ UNCHANGED <<stderr, exit_code>>
    /\ UNCHANGED <<argv, result, should_generate, passthrough, provider, response,
                   message, run_git_calls, generate_calls, post_calls>>

\* main, lines 251-254: _get_config()
GetConfig ==
    /\ pc = "config"
    /\ \E p \in Providers : provider' = p
    /\ pc' = "generate"
    /\ UNCHANGED <<argv, max_lines, git_out, result, should_generate, passthrough,
                   diff, response, message, run_git_calls, capture_calls,
                   generate_calls, post_calls, stderr, exit_code>>

\* main, lines 256-263: _generate_message, the provider answering one of resps
Generate(resps) ==
    /\ pc = "generate"
    /\ \E r \in resps :
          LET m == _generate_message(provider, r)
          IN  /\ response' = r
              /\ generate_calls' = generate_calls + 1
              /\ post_calls' = post_calls + (IF provider = OPENAI /\ posts(r) THEN 1 ELSE 0)
              /\ IF m.raised
                 THEN /\ stderr' = Append(stderr, "Generation failed")
                      /\ exit_code' = 1
                      /\ pc' = "exit"
                      /\ message' = message
                 ELSE /\ message' = m.value
                      /\ pc' = "commit"
                      /\ UNCHANGED <<stderr, exit_code>>
    /\ UNCHANGED <<argv, max_lines, git_out, result, should_generate, passthrough,
                   diff, provider, run_git_calls, capture_calls>>

commit_args_Original(p, m) == argv \o <<DASH_M, m>>

\* passthrough + ["-m", message]
commit_args(p, m) == p \o <<DASH_M, m>>

\* main, lines 265-277: the empty-message check and the commit
Commit ==
    /\ pc = "commit"
    /\ IF strip(message) = <<>>
       THEN /\ stderr' = Append(stderr, "Model returned empty message.")
            /\ exit_code' = 1
            /\ UNCHANGED run_git_calls
       ELSE \E code \in ExitCodes :
               /\ run_git_calls' =
                      Append(run_git_calls, RunGit(commit_args(passthrough, message), code))
               /\ exit_code' = code
               /\ UNCHANGED stderr
    /\ pc' = "exit"
    /\ UNCHANGED <<argv, max_lines, git_out, result, should_generate, passthrough,
                   diff, provider, response, message, capture_calls,
                   generate_calls, post_calls>>

InitMain ==
    /\ pc = "main"
    /\ argv \in SeqsUpTo(Tokens, MaxMainArgs)
    /\ Idle

NextMain ==
    \/ Passthrough
    \/ Triggered
    \/ CollectDiff(MainGitOutputs)
    \/ GetConfig
    \/ Generate(MainResponses)
    \/ Commit

\* main on every argument sequence
Spec == InitMain /\ [][NextMain]_vars

InitMessage ==
    /\ pc = "main"
    /\ argv \in {<<COMMIT, DASH_M, EMPTY>>, <<COMMIT, DASH_A, MESSAGE>>}
    /\ Idle

NextMessage ==
    \/ Triggered
    \/ CollectDiff(MessageGitOutputs)
    \/ GetConfig
    \/ Generate(MessageResponses)
    \/ Commit

\* main on triggering arguments and every provider content
SpecMessage == InitMessage /\ [][NextMessage]_vars

----------------------------------------------------------------------------
(* The claims *)

\* -m or --message
Flag(t) == t \in {DASH_M, MESSAGE}

\* the empty string, a single double quote or a single single quote
Blank(t) == t \in {EMPTY, DQUOTE, SQUOTE}

\* s without the elements at the positions in I
Without(s, I) ==
    LET keep == (1..Len(s)) \ I
        at == [j \in 1..Cardinality(keep) |->
                 CHOOSE k \in keep : Cardinality({m \in keep : m < k}) = j - 1]
    IN  [j \in 1..Cardinality(keep) |-> s[at[j]]]

IsCommit(a) == Len(a) >= 1 /\ a[1] = COMMIT

\* the positions of the message flags of a that a value follows
FlagsWithValue(a) == {k \in 2..(Len(a) - 1) : Flag(a[k])}

\* C1 as stated: whenever the first token is "commit" and some message flag is
\* followed by an empty string or a bare quote, _extract_commit_args returns
\* should_generate = TRUE and the arguments without that flag and its value.
C1_Original ==
    (pc = "returned" /\ IsCommit(argv)) =>
        \A k \in FlagsWithValue(argv) :
            Blank(argv[k + 1]) => result = <<TRUE, Without(argv, {k, k + 1})>>

\* C1 amended: whenever the first token is "commit", some message flag is followed
\* by an empty string or a bare quote and no message flag is followed by any
\* other value, _extract_commit_args returns should_generate = TRUE and the
\* arguments without every message flag and the value that follows it.
C1_Amended ==
    (/\ pc = "returned"
     /\ IsCommit(argv)
     /\ \E k \in FlagsWithValue(argv) : Blank(argv[k + 1])
     /\ \A k \in FlagsWithValue(argv) : Blank(argv[k + 1]))
    => result = <<TRUE, Without(argv, {k \in 2..Len(argv) :
                                          Flag(argv[k]) \/ Flag(argv[k - 1])})>>

C1_Witness ==
    /\ pc = "returned"
    /\ argv = <<COMMIT, DASH_A, MESSAGE, SQUOTE, TEXT>>
    /\ result = <<TRUE, <<COMMIT, DASH_A, TEXT>>>>

\* C2: whenever the first token is "commit" and some message flag is followed by
\* a value that is neither empty nor a bare quote, _extract_commit_args returns
\* should_generate = FALSE and the original arguments, wherever that flag sits.
C2_NonEmptyMessagePassesThrough ==
    (/\ pc = "returned"
     /\ IsCommit(argv)
     /\ \E k \in FlagsWithValue(argv) : ~Blank(argv[k + 1]))
    => result = <<FALSE, argv>>

C2_Witness ==
    /\ pc = "returned"
    /\ argv = <<COMMIT, DASH_M, EMPTY, MESSAGE, TEXT>>
    /\ result = <<FALSE, argv>>

\* C3 as stated: whenever the first token is "commit" and the last token is a
\* message flag, _extract_commit_args returns should_generate = TRUE, whatever
\* comes before that flag.
C3_Original ==
    (/\ pc = "returned"
     /\ IsCommit(argv)
     /\ Len(argv) >= 2
     /\ Flag(argv[Len(argv)]))
    => result[1] = TRUE

\* C3 amended: whenever the first token is "commit", the last token is a message
\* flag and no message flag is followed by a value that is neither empty nor a
\* bare quote, _extract_commit_args returns should_generate = TRUE.
C3_Amended ==
    (/\ pc = "returned"
     /\ IsCommit(argv)
     /\ Len(argv) >= 2
     /\ Flag(argv[Len(argv)])
     /\ \A k \in FlagsWithValue(argv) : Blank(argv[k + 1]))
    => result[1] = TRUE

C3_Witness ==
    /\ pc = "returned"
    /\ argv = <<COMMIT, DASH_A, TEXT, MESSAGE>>
    /\ result = <<TRUE, <<COMMIT, DASH_A, TEXT>>>>

\* C4: when the arguments are empty or do not start with "commit", main never
\* collects the staged diff and never generates, and it ends having called git
\* exactly once, with the original arguments, returning git's exit code.
C4_NonCommitPassesThrough ==
    ~IsCommit(argv) =>
        /\ capture_calls = 0
        /\ generate_calls = 0
        /\ post_calls = 0
        /\ stderr = <<>>
        /\ pc = "main" => run_git_calls = <<>>
        /\ pc # "main" =>
              /\ pc = "exit"
              /\ Len(run_git_calls) = 1
              /\ run_git_calls[1].args = argv
              /\ run_git_calls[1].returncode = exit_code

C4_Witness ==
    /\ pc = "exit"
    /\ argv = <<STATUS, DASH_M, EMPTY>>
    /\ run_git_calls = <<RunGit(<<STATUS, DASH_M, EMPTY>>, 128)>>
    /\ exit_code = 128

\* the provider call succeeds and its content has more than white space
ProviderReturnsMessage ==
    /\ generate_calls = 1
    /\ provider = OPENAI
    /\ response.api_key
    /\ response.transport = "ok"
    /\ response.status \in 200..299
    /\ response.body_ok
    /\ \E i \in 1..Len(response.content) : response.content[i] \notin {SP, NL}

\* a single line of at most 120 characters with no white space around it
PlainLine(c) ==
    /\ Len(c) \in 1..120
    /\ \A i \in 1..Len(c) : c[i] # NL
    /\ c[1] # SP
    /\ c[Len(c)] # SP

\* C5: when a triggered run with a non-empty staged diff gets a message from the
\* provider, main ends having called git exactly once, with the classifier's
\* cleaned arguments followed by "-m" and the generated message (the provider's
\* content itself when that is a plain line), and returns that call's exit code.
C5_CommitWithGeneratedMessage ==
    (pc = "exit" /\ should_generate /\ ProviderReturnsMessage) =>
        /\ Len(run_git_calls) = 1
        /\ run_git_calls[1].args = passthrough \o <<DASH_M, message>>
        /\ run_git_calls[1].returncode = exit_code
        /\ PlainLine(response.content) => message = response.content

C5_Witness ==
    /\ pc = "exit"
    /\ argv = <<COMMIT, DASH_M, EMPTY>>
    /\ diff # <<>>
    /\ response.content = <<"a", SP, "a">>
    /\ run_git_calls = <<RunGit(<<COMMIT, DASH_M, <<"a", SP, "a">>>>, 128)>>
    /\ exit_code = 128

\* git's staged diff came back with exit code 0 and only white space
NothingStaged ==
    /\ capture_calls = 1
    /\ git_out.code = 0
    /\ \A i \in 1..Len(git_out.out) : git_out.out[i] \in {SP, NL}

\* C6: when the staged-diff command succeeds with empty or all-whitespace
\* output, main exits with code 1 and never calls the text generation.
C6_NoStagedChanges ==
    (should_generate /\ NothingStaged) =>
        /\ pc = "exit"
        /\ exit_code = 1
        /\ generate_calls = 0
        /\ post_calls = 0

C6_Witness ==
    /\ should_generate
    /\ capture_calls = 1
    /\ git_out = GitOutput(0, <<SP, NL>>, <<>>)
    /\ pc = "exit"
    /\ exit_code = 1

\* the staged-diff step of the run failed
DiffStepFailed ==
    /\ capture_calls >= 1
    /\ \/ git_out.code # 0
       \/ \A i \in 1..Len(git_out.out) : git_out.out[i] \in {SP, NL}

\* the generation step of the run failed
GenerationStepFailed ==
    /\ generate_calls >= 1
    /\ \/ provider # OPENAI
       \/ ~response.api_key
       \/ response.transport # "ok"
       \/ response.status \notin 200..299
       \/ ~response.body_ok
       \/ \A i \in 1..Len(response.content) : response.content[i] \in {SP, NL}

\* C7: in a triggered run, a failure of the diff step or of the generation step
\* ends main with exit code 1 without any git commit, and neither step is ever
\* run a second time.
C7_FailureExitsWithoutCommit ==
    /\ capture_calls <= 1
    /\ generate_calls <= 1
    /\ post_calls <= generate_calls
    /\ (should_generate /\ (DiffStepFailed \/ GenerationStepFailed)) =>
          /\ pc = "exit"
          /\ exit_code = 1
          /\ run_git_calls = <<>>
          /\ Len(stderr) = 1

C7_Witness ==
    /\ should_generate
    /\ generate_calls = 1
    /\ provider = OPENAI
    /\ response.api_key
    /\ response.transport = "ok"
    /\ response.status = 500
    /\ exit_code = 1
    /\ run_git_calls = <<>>

\* C8: the message main passes to git commit after "-m" is non-empty, at most 120
\* characters long and without a line break, whatever the provider's content.
C8_MessageInvariant ==
    \A i \in 1..Len(run_git_calls) :
        LET args == run_git_calls[i].args
            m == args[Len(args)]
        IN  /\ Len(args) >= 3
            /\ args[Len(args) - 1] = DASH_M
            /\ m = message
            /\ Len(m) \in 1..120
            /\ \A j \in 1..Len(m) : m[j] # NL

C8_Witness ==
    /\ run_git_calls # <<>>
    /\ Len(response.content) > 120
    /\ response.content[1] = SP
    /\ \E j \in 1..Len(response.content) : response.content[j] = NL
    /\ Len(message) = 119

\* the lines "\n".join put together in text
LinesOf(text) == IF text = <<>> THEN <<>> ELSE pieces(text, 1, Len(text))

\* C9 as stated, for an output that holds a diff: with more than max_lines lines
\* the returned text is the first max_lines lines and one marker line, max_lines
\* + 1 lines in all; with at most max_lines lines it is the original lines.
C9_Original ==
    (/\ pc = "returned"
     /\ git_out.code = 0
     /\ \E i \in 1..Len(git_out.out) : git_out.out[i] \notin {SP, NL})
    => LET lines == splitlines(git_out.out)
           got == LinesOf(result.value)
       IN  /\ ~result.raised
           /\ IF Len(lines) > max_lines
              THEN /\ Len(got) = max_lines + 1
                   /\ SubSeq(got, 1, max_lines) = SubSeq(lines, 1, max_lines)
              ELSE got = lines

\* C10 as stated: when the provider answers 2xx with well-formed JSON whose
\* content is empty or white space, main reports it with its own empty-message
\* diagnostic, not with the one of the other generation failures.
C10_Original ==
    (/\ pc = "exit"
     /\ should_generate
     /\ generate_calls = 1
     /\ provider = OPENAI
     /\ response.api_key
     /\ response.transport = "ok"
     /\ response.status \in 200..299
     /\ response.body_ok
     /\ \A i \in 1..Len(response.content) : response.content[i] \in {SP, NL})
    => stderr = <<"Model returned empty message.">>

====
